---- MODULE Spec2Model ----
(***************************************************************************)
(* Chat subsystem of The-Moringa-daily backend                             *)
(* (src/.history/server/app_20250507145350.py).                            *)
(*                                                                         *)
(* The Conversation and Message tables are sequences of rows in insertion  *)
(* order; the HTTP handler handle_chat is split at each of its database    *)
(* round trips, so that concurrent requests interleave between them.       *)
(***************************************************************************)
EXTENDS Integers, Sequences, FiniteSets, TLC

\* ------------------------------------------------------------------ bounds
MaxConversations == 2
MaxMessages == 2
MaxComments == 3
MaxLikes == 3

\* ------------------------------------------------------- domains of inputs
\* Registered users (rows of the User table); a token identifies one of them.
Users == {1, 2}
\* Request handlers running concurrently.
Requests == {"r1", "r2"}
\* Socket.IO clients.
Channels == {"c1", "c2"}
\* A POST body without a 'content' field.
NoContent == "none"
\* Python's None for a row that was not found or not yet created.
None == 0

\* A request: method, identity of the token, <int:recipient_id>, body.
RequestsOver(users, recipients, contents) ==
    [method : {"GET"}, current_user : users, recipient_id : recipients,
     data : {NoContent}]
    \cup
    [method : {"POST"}, current_user : users, recipient_id : recipients,
     data : contents \cup {NoContent}]

\* Any user writes to or reads from any user, itself included.
ChatInputs == RequestsOver(Users, Users, {"a"})
ChatTimes == {0}

\* As ChatInputs, and the recipient may be the id of no user.
BroadcastInputs == RequestsOver(Users, Users \cup {3}, {"a"})

\* The two users of one pair talk to each other; bodies differ and the clock
\* may or may not have advanced between two messages.
PairInputs ==
    {i \in RequestsOver(Users, Users, {"a", "b"}) :
        i.current_user # i.recipient_id /\ (i.method = "POST" => i.data # NoContent)}
PairTimes == {0, 1}

VARIABLES
    conversations,  \* Conversation table: rows [id, user1_id, user2_id]
    messages,       \* Message table: rows [id, conversation_id, sender_id,
                    \*                      recipient_id, content, timestamp]
    connected,      \* Socket.IO clients connected to the server
    broadcasts,     \* 'new_chat' events sent: [payload, receivers]
    req,            \* per request handler: position and locals of handle_chat
    listing,        \* the last answer of get_all_chats
    comments,       \* Comment table: rows [id, content_id, parent_comment_id]
    walk,           \* get_threaded_comments: position, call stack, result
    posted,         \* the last post_comment request and its answer
    likes,          \* Like table: rows [id, user_id, content_id]
    likeReq,        \* per request handler: position and locals of toggle_like
    active,         \* User.active of each user
    approved,       \* Content.approved of each content item
    mod,            \* the last moderation or content update request
    jwt_blocklist,  \* the module's set of revoked token ids
    auth            \* the last request that presented a token

chatVars == <<conversations, messages, connected, broadcasts, req>>
commentVars == <<comments, walk, posted>>
likeVars == <<likes, likeReq>>
modVars == <<active, approved, mod>>
authVars == <<jwt_blocklist, auth>>
nonChatVars == <<commentVars, likeVars, modVars, authVars>>

vars == <<chatVars, listing, nonChatVars>>

\* ----------------------------------------------------------------- helpers
Min(a, b) == IF a <= b THEN a ELSE b
Max(a, b) == IF a <= b THEN b ELSE a

Idle == [pc |-> "idle", method |-> "GET", current_user |-> None,
         recipient_id |-> None, data |-> NoContent, conversation |-> None,
         created |-> FALSE, message |-> None, status |-> 0, body |-> <<>>]

\* The pair as the request gives it, caller first.
CanonicalPairAsGiven(current_user, recipient_id) == <<current_user, recipient_id>>

\* filter_by(user1_id=min(current_user, recipient_id),
\*           user2_id=max(current_user, recipient_id))
CanonicalPair(current_user, recipient_id) ==
    <<Min(current_user, recipient_id), Max(current_user, recipient_id)>>

\* Conversation.query.filter_by(user1_id=.., user2_id=..).first(): id or None
FirstConversation(convs, pair) ==
    LET hits == {i \in 1..Len(convs) :
                    convs[i].user1_id = pair[1] /\ convs[i].user2_id = pair[2]}
    IN  IF hits = {} THEN None
        ELSE convs[CHOOSE i \in hits : \A j \in hits : i <= j].id

\* db.session.add(Conversation(..)); db.session.commit(): autoincrement id,
\* no uniqueness constraint on (user1_id, user2_id).
ConversationInsert(convs, pair) ==
    Append(convs, [id |-> Len(convs) + 1, user1_id |-> pair[1], user2_id |-> pair[2]])

\* A message whose recipient is filled in with the caller.
NewMessageToSelf(r) ==
    [conversation_id |-> r.conversation, sender_id |-> r.current_user,
     recipient_id |-> r.current_user, content |-> r.data]

\* Message(conversation_id=conversation.id, sender_id=current_user,
\*         recipient_id=recipient_id, content=data['content'])
NewMessage(r) ==
    [conversation_id |-> r.conversation, sender_id |-> r.current_user,
     recipient_id |-> r.recipient_id, content |-> r.data]

\* db.session.add(message); db.session.commit(): autoincrement id, timestamp
\* column stamped with the current time.
MessageInsert(msgs, m, now) ==
    Append(msgs, [id |-> Len(msgs) + 1, conversation_id |-> m.conversation_id,
                  sender_id |-> m.sender_id, recipient_id |-> m.recipient_id,
                  content |-> m.content, timestamp |-> now])

RECURSIVE Reverse(_)
Reverse(s) == IF s = <<>> THEN <<>> ELSE Append(Reverse(Tail(s)), Head(s))

\* The rows of a conversation ordered by timestamp, newest insert first among
\* equal timestamps.
MessagesOfByTimestamp(msgs, cid) ==
    LET rows == SelectSeq(msgs, LAMBDA m : m.conversation_id = cid)
        n == Len(rows)
        Before(x, y) == \/ x.timestamp < y.timestamp
                        \/ x.timestamp = y.timestamp /\ x.id > y.id
        perm == CHOOSE f \in [1..n -> 1..n] :
                    \A i, j \in 1..n : i < j => Before(rows[f[i]], rows[f[j]])
    IN  [i \in 1..n |-> rows[perm[i]]]

\* Message.query.filter_by(conversation_id=conversation.id).all(): no ORDER BY,
\* so the rows come in the order of the table scan.  The database is SQLite
\* ('sqlite:///moringa.db', app_20250427081731.py:14), whose scan is in rowid
\* order, and rows are never deleted or updated: insertion order.
MessagesOf(msgs, cid) == SelectSeq(msgs, LAMBDA m : m.conversation_id = cid)

\* The contents, newest first.
ListMessagesNewestFirst(msgs, cid) ==
    LET rows == Reverse(MessagesOf(msgs, cid))
    IN  [i \in 1..Len(rows) |-> rows[i].content]

\* Lines 422-423: [m.content for m in messages]
ListMessages(msgs, cid) ==
    LET rows == MessagesOf(msgs, cid)
    IN  [i \in 1..Len(rows) |-> rows[i].content]

\* Line 411: is emit a name bound in the module?  Line 10 imports SocketIO only
\* and nothing else defines it, so evaluating the call raises NameError.
EmitDefined == FALSE

\* Lines 408-416: receiver = User.query.get(recipient_id) is None for the id of
\* no user, and building the payload then raises AttributeError.
PayloadRaises(r) == r.recipient_id \notin Users

\* Lines 411-417: the 'new_chat' event (User.username is stood for by the id,
\* avatarUrl is left out).
Payload(r, now) ==
    [id |-> r.conversation, receiverName |-> r.recipient_id,
     lastMessage |-> r.data, lastMessageTime |-> now]

\* Get-or-create whatever the method.
CreatesAlways(method) == TRUE

\* Lines 383-392: if not conversation: create on POST, answer [] on GET.
CreatesOnMissing(method) == method = "POST"

\* ------------------------------------------------------------------- Init
\* Content items (rows of the Content table).
ContentIds == {1, 2}
\* Token ids (the 'jti' claim of the tokens that were issued).
Jtis == {"t1", "t2", "t3", "t4"}

NoListing == [current_user |-> None, status |-> 0, body |-> <<>>]
WalkIdle == [pc |-> "idle", content_id |-> None, todo |-> <<>>, stack |-> <<>>,
             result |-> <<>>, status |-> 0]
NoPost == [content_id |-> None, parent_comment_id |-> None, status |-> 0,
           comment |-> None]
LikeIdle == [pc |-> "idle", method |-> "POST", current_user |-> None,
             content_id |-> None, like |-> None, status |-> 0]
NoMod == [op |-> "none", caller |-> None, target |-> None, status |-> 0]
NoAuth == [op |-> "none", jti |-> "none", status |-> 0]

ChatInit ==
    /\ conversations = <<>>
    /\ messages = <<>>
    /\ connected = {}
    /\ broadcasts = <<>>
    /\ req = [p \in Requests |-> Idle]
    /\ listing = NoListing

CommentInit ==
    /\ comments = <<>>
    /\ walk = WalkIdle
    /\ posted = NoPost

LikeInit ==
    /\ likes = <<>>
    /\ likeReq = [p \in Requests |-> LikeIdle]

ModInit ==
    /\ active = [u \in Users |-> TRUE]
    /\ approved = [c \in ContentIds |-> FALSE]
    /\ mod = NoMod

AuthInit ==
    /\ jwt_blocklist = {}
    /\ auth = NoAuth

Init == ChatInit /\ CommentInit /\ LikeInit /\ ModInit /\ AuthInit

\* ---------------------------------------------------------------- actions
\* Lines 372-392: a request arrives at /chats/<recipient_id> with a valid
\* token; the handler queries for the conversation of the canonical pair and
\* branches on the result and the method.
LookupOf(p, inputs) ==
    /\ req[p].pc = "idle"
    /\ \E i \in inputs :
          LET r == [Idle EXCEPT !.method = i.method, !.current_user = i.current_user,
                                !.recipient_id = i.recipient_id, !.data = i.data]
              c == FirstConversation(conversations,
                                     CanonicalPair(i.current_user, i.recipient_id))
          IN  req' = [req EXCEPT ![p] =
                 IF c = None
                 THEN IF CreatesOnMissing(i.method)
                      THEN [r EXCEPT !.pc = "create"]
                      ELSE [r EXCEPT !.pc = "done", !.status = 200, !.body = <<>>]
                 ELSE [r EXCEPT !.conversation = c,
                                !.pc = IF i.method = "POST" THEN "append" ELSE "list"]]
    /\ UNCHANGED <<conversations, messages, connected, broadcasts>>
    /\ UNCHANGED <<listing, nonChatVars>>

\* Lines 385-390: create the conversation and commit.
CreateConversation(p) ==
    /\ req[p].pc = "create"
    /\ Len(conversations) < MaxConversations
    /\ LET r == req[p]
       IN  /\ conversations' = ConversationInsert(conversations,
                                    CanonicalPair(r.current_user, r.recipient_id))
           /\ req' = [req EXCEPT ![p] =
                        [r EXCEPT !.conversation = Len(conversations) + 1,
                                  !.created = TRUE,
                                  !.pc = IF r.method = "POST" THEN "append" ELSE "list"]]
    /\ UNCHANGED <<messages, connected, broadcasts>>
    /\ UNCHANGED <<listing, nonChatVars>>

\* Lines 394-419.  data['content'] raises KeyError on a body without the field,
\* which handle_exception (lines 39-42) turns into a 500.  Otherwise the message
\* is inserted and committed, the two users are read, and the call at line 411
\* is evaluated: it raises (see EmitDefined, PayloadRaises) before anything is
\* sent and handle_exception answers 500; were it to return, every connected
\* client would get the event and the answer would be 201.
AppendMessageAt(p, times) ==
    /\ req[p].pc = "append"
    /\ LET r == req[p]
       IN  IF r.data = NoContent
           THEN /\ req' = [req EXCEPT ![p] = [r EXCEPT !.pc = "done", !.status = 500]]
                /\ UNCHANGED <<messages, broadcasts>>
           ELSE /\ Len(messages) < MaxMessages
                /\ \E now \in times :
                      /\ messages' = MessageInsert(messages, NewMessage(r), now)
                      /\ IF ~EmitDefined \/ PayloadRaises(r)
                         THEN /\ req' = [req EXCEPT ![p] =
                                    [r EXCEPT !.message = Len(messages) + 1,
                                              !.pc = "done", !.status = 500]]
                              /\ UNCHANGED broadcasts
                         ELSE /\ req' = [req EXCEPT ![p] =
                                    [r EXCEPT !.message = Len(messages) + 1,
                                              !.pc = "done", !.status = 201]]
                              /\ broadcasts' = Append(broadcasts,
                                    [payload |-> Payload(r, now),
                                     receivers |-> connected])
    /\ UNCHANGED <<conversations, connected>>
    /\ UNCHANGED <<listing, nonChatVars>>

\* Lines 421-423: GET on an existing conversation.
List(p) ==
    /\ req[p].pc = "list"
    /\ req' = [req EXCEPT ![p] =
                 [@ EXCEPT !.pc = "done", !.status = 200,
                           !.body = ListMessages(messages, req[p].conversation)]]
    /\ UNCHANGED <<conversations, messages, connected, broadcasts>>
    /\ UNCHANGED <<listing, nonChatVars>>

\* The response is sent; the handler is free for the next request.
Finish(p) ==
    /\ req[p].pc = "done"
    /\ req' = [req EXCEPT ![p] = Idle]
    /\ UNCHANGED <<conversations, messages, connected, broadcasts>>
    /\ UNCHANGED <<listing, nonChatVars>>

\* Lines 438-441: a Socket.IO client connects (the handler only prints).
on_connect(ch) ==
    /\ ch \notin connected
    /\ connected' = connected \cup {ch}
    /\ UNCHANGED <<conversations, messages, broadcasts, req>>
    /\ UNCHANGED <<listing, nonChatVars>>

\* A Socket.IO client disconnects.
Disconnect(ch) ==
    /\ ch \in connected
    /\ connected' = connected \ {ch}
    /\ UNCHANGED <<conversations, messages, broadcasts, req>>
    /\ UNCHANGED <<listing, nonChatVars>>

\* ---------------------------------------------------------- specifications
\* Any two users, two concurrent handlers.
Lookup(p) == LookupOf(p, ChatInputs)
AppendMessage(p) == AppendMessageAt(p, ChatTimes)

Next ==
    \/ \E p \in Requests : Lookup(p)
    \/ \E p \in Requests : CreateConversation(p)
    \/ \E p \in Requests : AppendMessage(p)
    \/ \E p \in Requests : List(p)
    \/ \E p \in Requests : Finish(p)

Spec == Init /\ [][Next]_vars

\* One pair of users, two concurrent handlers, distinguishable messages.
PairLookup(p) == LookupOf(p, PairInputs)
PairAppendMessage(p) == AppendMessageAt(p, PairTimes)

NextPair ==
    \/ \E p \in Requests : PairLookup(p)
    \/ \E p \in Requests : CreateConversation(p)
    \/ \E p \in Requests : PairAppendMessage(p)
    \/ \E p \in Requests : List(p)
    \/ \E p \in Requests : Finish(p)

SpecPair == Init /\ [][NextPair]_vars

\* One handler and the Socket.IO clients.
BroadcastLookup(p) == LookupOf(p, BroadcastInputs)

NextBroadcast ==
    \/ BroadcastLookup("r1")
    \/ CreateConversation("r1")
    \/ AppendMessage("r1")
    \/ List("r1")
    \/ Finish("r1")
    \/ \E ch \in Channels : on_connect(ch)
    \/ \E ch \in Channels : Disconnect(ch)

SpecBroadcast == Init /\ [][NextBroadcast]_vars

\* ----------------------------------------------------------- get_all_chats
\* The ids of the rows with the user in the first column only.
AllChatsOfUser1(convs, current_user) ==
    LET rows == SelectSeq(convs, LAMBDA c : c.user1_id = current_user)
    IN  [i \in 1..Len(rows) |-> rows[i].id]

\* Lines 369-370: Conversation.query.filter((user1_id == current_user) |
\* (user2_id == current_user)).all(), then [c.id for c in chats].
AllChats(convs, current_user) ==
    LET rows == SelectSeq(convs, LAMBDA c : c.user1_id = current_user
                                            \/ c.user2_id = current_user)
    IN  [i \in 1..Len(rows) |-> rows[i].id]

\* Lines 365-370: GET /chats with the token of user u.
get_all_chats(u) ==
    /\ listing' = [current_user |-> u, status |-> 200,
                   body |-> AllChats(conversations, u)]
    /\ UNCHANGED <<chatVars, nonChatVars>>

\* One handler of /chats/<recipient_id>, and /chats.
NextChats ==
    \/ BroadcastLookup("r1")
    \/ CreateConversation("r1")
    \/ AppendMessage("r1")
    \/ List("r1")
    \/ Finish("r1")
    \/ \E u \in Users : get_all_chats(u)

SpecChats == Init /\ [][NextChats]_vars

\* ------------------------------------------------- get_threaded_comments
\* Every Comment table of at most MaxComments rows: each row belongs to a
\* content item and points to no parent or to any row, itself included.
CommentTables ==
    UNION {{[i \in 1..n |-> [id |-> i, user_id |-> 1, content_id |-> f[i][1],
                            parent_comment_id |-> f[i][2]]] :
              f \in [1..n -> ContentIds \X (0..n)]} : n \in 0..MaxComments}

\* The comments without a parent, of any content item.
TopLevelOfAnyContent(cmts, content_id) ==
    SelectSeq(cmts, LAMBDA c : c.parent_comment_id = None)

\* The comments of the content item, with or without a parent.
TopLevelWithAnyParent(cmts, content_id) ==
    SelectSeq(cmts, LAMBDA c : c.content_id = content_id)

\* Line 310: Comment.query.filter_by(content_id=content_id,
\*                                   parent_comment_id=None).all()
TopLevel(cmts, content_id) ==
    SelectSeq(cmts, LAMBDA c : c.content_id = content_id
                               /\ c.parent_comment_id = None)

\* comment.replies: the comments whose parent_comment_id is the comment's id,
\* in table order.
Replies(cmts, id) == SelectSeq(cmts, LAMBDA c : c.parent_comment_id = id)

IdsOf(rows) == [i \in 1..Len(rows) |-> rows[i].id]

\* A call of build_comment_tree(comment): its frame holds the comment, the
\* replies still to be built and the nodes already built.
Frame(cmts, id) == [id |-> id, todo |-> IdsOf(Replies(cmts, id)), replies |-> <<>>]

\* Lines 314-320: the node (user, body and created_at are copies of columns).
Node(frame) == [id |-> frame.id, replies |-> frame.replies]

\* Lines 307-310: GET /content/<content_id>/comments reads the top level.
get_threaded_comments(content_id) ==
    /\ walk.pc = "idle"
    /\ walk' = [WalkIdle EXCEPT !.pc = "run", !.content_id = content_id,
                                !.todo = IdsOf(TopLevel(comments, content_id))]
    /\ UNCHANGED <<comments, posted, chatVars, listing, likeVars, modVars, authVars>>

\* Lines 311, 319: the next element of a comprehension: build_comment_tree is
\* called for the next top-level comment, or for the next reply of the comment
\* of the running call.
Call ==
    /\ walk.pc = "run"
    /\ LET n == Len(walk.stack) IN
       IF n = 0
       THEN /\ walk.todo # <<>>
            /\ walk' = [walk EXCEPT !.todo = Tail(@),
                                    !.stack = <<Frame(comments, Head(walk.todo))>>]
       ELSE /\ walk.stack[n].todo # <<>>
            /\ walk' = [walk EXCEPT
                          !.stack = Append([@ EXCEPT ![n].todo = Tail(@)],
                                           Frame(comments, Head(walk.stack[n].todo)))]
    /\ UNCHANGED <<comments, posted, chatVars, listing, likeVars, modVars, authVars>>

\* Lines 314-320: a call has built all its replies and returns its node to the
\* comprehension that called it.
Return ==
    /\ walk.pc = "run"
    /\ LET n == Len(walk.stack) IN
       /\ n > 0
       /\ walk.stack[n].todo = <<>>
       /\ IF n = 1
          THEN walk' = [walk EXCEPT !.stack = <<>>,
                                    !.result = Append(@, Node(walk.stack[1]))]
          ELSE walk' = [walk EXCEPT
                          !.stack = [SubSeq(@, 1, n - 1) EXCEPT
                                       ![n - 1].replies = Append(@, Node(walk.stack[n]))]]
    /\ UNCHANGED <<comments, posted, chatVars, listing, likeVars, modVars, authVars>>

\* Line 311: the list is complete, jsonify answers 200.
Respond ==
    /\ walk.pc = "run"
    /\ walk.stack = <<>> /\ walk.todo = <<>>
    /\ walk' = [walk EXCEPT !.pc = "done", !.status = 200]
    /\ UNCHANGED <<comments, posted, chatVars, listing, likeVars, modVars, authVars>>

InitComments ==
    /\ ChatInit /\ LikeInit /\ ModInit /\ AuthInit
    /\ comments \in CommentTables
    /\ walk = WalkIdle
    /\ posted = NoPost

NextComments ==
    \/ \E c \in ContentIds : get_threaded_comments(c)
    \/ Call
    \/ Return
    \/ Respond

\* The handler's thread keeps running: a step it can take is taken.
SpecComments == InitComments /\ [][NextComments]_vars /\ WF_vars(NextComments)

\* ------------------------------------------------------------ post_comment
\* app_20250427081731.py line 219: Comment(user_id=current_user,
\* content_id=data['content_id'], text=data['text']): no other key of the
\* body is read, so the row has no parent.
NewComment(cmts, current_user, data) ==
    [id |-> Len(cmts) + 1, user_id |-> current_user,
     content_id |-> data.content_id, parent_comment_id |-> None]

\* app_20250427081731.py lines 214-222: POST /comment adds the row and
\* answers 201.
post_comment(current_user, data) ==
    /\ Len(comments) < MaxComments
    /\ comments' = Append(comments, NewComment(comments, current_user, data))
    /\ posted' = [content_id |-> data.content_id,
                  parent_comment_id |-> data.parent_comment_id,
                  status |-> 201, comment |-> Len(comments) + 1]
    /\ UNCHANGED <<walk, chatVars, listing, likeVars, modVars, authVars>>

\* The bodies of POST /comment: a content item and, optionally, the comment
\* replied to.
CommentBodies ==
    [content_id : ContentIds, parent_comment_id : {None} \cup 1..Len(comments)]

NextPost == \E u \in Users, data \in CommentBodies : post_comment(u, data)

SpecPost == Init /\ [][NextPost]_vars

\* -------------------------------------------------------------------- likes
\* The id the database gives the next Like row: one more than the largest.
NextLikeId(rows) ==
    IF rows = <<>> THEN 1
    ELSE 1 + (CHOOSE m \in {rows[i].id : i \in 1..Len(rows)} :
                 \A i \in 1..Len(rows) : rows[i].id <= m)

\* db.session.add(Like(user_id, content_id)); db.session.commit(): the table
\* accepts every row.
LikeInsert(rows, current_user, content_id) ==
    Append(rows, [id |-> NextLikeId(rows), user_id |-> current_user,
                  content_id |-> content_id])

\* db.session.delete(like); db.session.commit()
LikeDelete(rows, like_id) == SelectSeq(rows, LAMBDA l : l.id # like_id)

\* Line 294: Like.query.filter_by(id=like_id, user_id=current_user).first()
LikeOfUser(rows, like_id, current_user) ==
    LET found == SelectSeq(rows, LAMBDA l : l.id = like_id /\ l.user_id = current_user)
    IN  IF found = <<>> THEN None ELSE found[1].id

\* app_20250427081731.py line 230:
\* Like.query.filter_by(user_id=current_user, content_id=content_id).first()
FirstLike(rows, current_user, content_id) ==
    LET found == SelectSeq(rows, LAMBDA l : l.user_id = current_user
                                            /\ l.content_id = content_id)
    IN  IF found = <<>> THEN None ELSE found[1].id

\* Lines 282-290: POST /like inserts the row and answers 201.
like_content(p, current_user, content_id) ==
    /\ likeReq[p].pc = "idle"
    /\ NextLikeId(likes) <= MaxLikes
    /\ likes' = LikeInsert(likes, current_user, content_id)
    /\ likeReq' = [likeReq EXCEPT ![p] =
                     [pc |-> "done", method |-> "POST", current_user |-> current_user,
                      content_id |-> content_id, like |-> NextLikeId(likes),
                      status |-> 201]]
    /\ UNCHANGED <<chatVars, listing, commentVars, modVars, authVars>>

\* Lines 292-302: DELETE /like/<like_id> answers 404 when the caller has no
\* such like, else deletes it and answers 200.
unlike_content(p, current_user, like_id) ==
    /\ likeReq[p].pc = "idle"
    /\ LET like == LikeOfUser(likes, like_id, current_user) IN
       /\ likes' = IF like = None THEN likes ELSE LikeDelete(likes, like)
       /\ likeReq' = [likeReq EXCEPT ![p] =
                        [pc |-> "done", method |-> "DELETE",
                         current_user |-> current_user, content_id |-> None,
                         like |-> like_id,
                         status |-> IF like = None THEN 404 ELSE 200]]
    /\ UNCHANGED <<chatVars, listing, commentVars, modVars, authVars>>

\* The answer has been sent: the worker takes the next request.
LikeFinish(p) ==
    /\ likeReq[p].pc = "done"
    /\ likeReq' = [likeReq EXCEPT ![p] = LikeIdle]
    /\ UNCHANGED <<likes, chatVars, listing, commentVars, modVars, authVars>>

NextLike ==
    \/ \E u \in Users, c \in ContentIds : like_content("r1", u, c)
    \/ \E u \in Users, l \in 1..MaxLikes : unlike_content("r1", u, l)
    \/ LikeFinish("r1")

SpecLike == Init /\ [][NextLike]_vars

\* app_20250427081731.py lines 229-230: toggle_like reads the caller's like
\* of the content item.
ToggleLookup(p, method, current_user, content_id) ==
    /\ likeReq[p].pc = "idle"
    /\ likeReq' = [likeReq EXCEPT ![p] =
                     [pc |-> "found", method |-> method,
                      current_user |-> current_user, content_id |-> content_id,
                      like |-> FirstLike(likes, current_user, content_id),
                      status |-> 0]]
    /\ UNCHANGED <<likes, chatVars, listing, commentVars, modVars, authVars>>

\* app_20250427081731.py lines 232-251: POST answers 400 when a like was
\* found, else inserts and answers 201; DELETE answers 404 when none was
\* found, else deletes it and answers 200.
ToggleAct(p) ==
    /\ likeReq[p].pc = "found"
    /\ LET r == likeReq[p] IN
       IF r.method = "POST"
       THEN IF r.like # None
            THEN /\ likes' = likes
                 /\ likeReq' = [likeReq EXCEPT ![p].pc = "done", ![p].status = 400]
            ELSE /\ NextLikeId(likes) <= MaxLikes
                 /\ likes' = LikeInsert(likes, r.current_user, r.content_id)
                 /\ likeReq' = [likeReq EXCEPT ![p].pc = "done", ![p].status = 201]
       ELSE IF r.like = None
            THEN /\ likes' = likes
                 /\ likeReq' = [likeReq EXCEPT ![p].pc = "done", ![p].status = 404]
            ELSE /\ likes' = LikeDelete(likes, r.like)
                 /\ likeReq' = [likeReq EXCEPT ![p].pc = "done", ![p].status = 200]
    /\ UNCHANGED <<chatVars, listing, commentVars, modVars, authVars>>

NextToggle ==
    \E p \in Requests :
        \/ \E m \in {"POST", "DELETE"}, u \in Users, c \in ContentIds :
               ToggleLookup(p, m, u, c)
        \/ ToggleAct(p)
        \/ LikeFinish(p)

SpecToggle == Init /\ [][NextToggle]_vars

\* --------------------------------------------------------------- moderation
\* user.assign_role(): user 1 is the admin, user 2 is not.
Role(u) == IF u = 1 THEN "admin" ELSE "user"

\* Lines 338-340, 353-355: admin_user = User.query.get(current_user_id);
\* not admin_user or admin_user.role != 'admin'
NotAdmin(current_user_id) ==
    current_user_id \notin Users \/ Role(current_user_id) # "admin"

\* The identities a valid token can carry: the users and 3, whose row is gone.
Callers == Users \cup {3}

\* Lines 335-347: PATCH /admin/users/<user_id>/deactivate
deactivate_user(current_user_id, user_id) ==
    /\ IF NotAdmin(current_user_id)
       THEN /\ mod' = [op |-> "deactivate_user", caller |-> current_user_id,
                       target |-> user_id, status |-> 403]
            /\ active' = active
       ELSE IF user_id \notin Users
       THEN /\ mod' = [op |-> "deactivate_user", caller |-> current_user_id,
                       target |-> user_id, status |-> 404]
            /\ active' = active
       ELSE /\ mod' = [op |-> "deactivate_user", caller |-> current_user_id,
                       target |-> user_id, status |-> 200]
            /\ active' = [active EXCEPT ![user_id] = FALSE]
    /\ UNCHANGED <<approved, chatVars, listing, commentVars, likeVars, authVars>>

\* Lines 350-362: POST /content/<content_id>/approve
approve_content(current_user_id, content_id) ==
    /\ IF NotAdmin(current_user_id)
       THEN /\ mod' = [op |-> "approve_content", caller |-> current_user_id,
                       target |-> content_id, status |-> 403]
            /\ approved' = approved
       ELSE IF content_id \notin ContentIds
       THEN /\ mod' = [op |-> "approve_content", caller |-> current_user_id,
                       target |-> content_id, status |-> 404]
            /\ approved' = approved
       ELSE /\ mod' = [op |-> "approve_content", caller |-> current_user_id,
                       target |-> content_id, status |-> 200]
            /\ approved' = [approved EXCEPT ![content_id] = TRUE]
    /\ UNCHANGED <<active, chatVars, listing, commentVars, likeVars, authVars>>

\* The bodies of PATCH /content/<content_id>: any keys with any values.
PatchBodies == {[title |-> "t"], [approved |-> TRUE], [approved |-> FALSE]}

\* Lines 194-203: PATCH /content/<content_id> sets every key of the body on
\* the content item, for any caller with a valid token.
update_content(current_user_id, content_id, data) ==
    /\ IF content_id \notin ContentIds
       THEN /\ mod' = [op |-> "update_content", caller |-> current_user_id,
                       target |-> content_id, status |-> 404]
            /\ approved' = approved
       ELSE /\ mod' = [op |-> "update_content", caller |-> current_user_id,
                       target |-> content_id, status |-> 200]
            /\ approved' = IF "approved" \in DOMAIN data
                           THEN [approved EXCEPT ![content_id] = data.approved]
                           ELSE approved
    /\ UNCHANGED <<active, chatVars, listing, commentVars, likeVars, authVars>>

NextMod ==
    \/ \E u \in Callers, t \in Users \cup {3} : deactivate_user(u, t)
    \/ \E u \in Callers, c \in ContentIds \cup {3} : approve_content(u, c)
    \/ \E u \in Callers, c \in ContentIds \cup {3}, data \in PatchBodies :
           update_content(u, c, data)

SpecMod == Init /\ [][NextMod]_vars

\* ---------------------------------------------------------- token blocklist
\* Lines 28-31: the token_in_blocklist_loader: jti in jwt_blocklist
check_if_token_revoked(blocklist, jti) == jti \in blocklist

\* A blocklist that holds the last token only.
BlocklistOfLast(blocklist, jti) == {jti}

\* Line 113: jwt_blocklist.add(jti)
BlocklistAdd(blocklist, jti) == blocklist \cup {jti}

\* Lines 109-114: POST /logout: jwt_required answers 401 to a revoked token
\* before the handler runs; else the jti is added and the answer is 200.
logout(jti) ==
    IF check_if_token_revoked(jwt_blocklist, jti)
    THEN /\ auth' = [op |-> "logout", jti |-> jti, status |-> 401]
         /\ UNCHANGED <<jwt_blocklist, chatVars, listing, commentVars, likeVars, modVars>>
    ELSE /\ jwt_blocklist' = BlocklistAdd(jwt_blocklist, jti)
         /\ auth' = [op |-> "logout", jti |-> jti, status |-> 200]
         /\ UNCHANGED <<chatVars, listing, commentVars, likeVars, modVars>>

\* Any other route under @jwt_required() (lines 365-367, for one): a revoked
\* token is answered 401, any other token reaches the handler.
jwt_required(jti) ==
    /\ auth' = [op |-> "jwt_required", jti |-> jti,
                status |-> IF check_if_token_revoked(jwt_blocklist, jti)
                           THEN 401 ELSE 200]
    /\ UNCHANGED <<jwt_blocklist, chatVars, listing, commentVars, likeVars, modVars>>

NextAuth == \E jti \in Jtis : logout(jti) \/ jwt_required(jti)

SpecAuth == Init /\ [][NextAuth]_vars

\* ------------------------------------------------------------------ claims
ConversationIds == {conversations[i].id : i \in 1..Len(conversations)}
ConversationById(cid) ==
    conversations[CHOOSE i \in 1..Len(conversations) : conversations[i].id = cid]
MessageById(mid) == messages[CHOOSE i \in 1..Len(messages) : messages[i].id = mid]
IsPrefix(s, t) == Len(s) <= Len(t) /\ \A i \in 1..Len(s) : s[i] = t[i]

\* The rows of the pair {a, b}, whichever way round they are stored.
RowsOfPair(a, b) ==
    {i \in 1..Len(conversations) :
        {conversations[i].user1_id, conversations[i].user2_id} = {a, b}}

\* The contents of the messages of a conversation, by ascending message id
\* (ids are handed out in the order of the inserts).
ContentsById(cid) ==
    LET ids == {messages[i].id : i \in {j \in 1..Len(messages) :
                                          messages[j].conversation_id = cid}}
        n == Cardinality(ids)
        f == CHOOSE g \in [1..n -> ids] : \A i, j \in 1..n : i < j => g[i] < g[j]
    IN  [i \in 1..n |-> MessageById(f[i]).content]

\* C1: for any two users A # B there is at most one Conversation row whose
\* participants are {A, B}, under every interleaving of chat requests.
C1_OneConversationPerPair ==
    \A a, b \in Users : a # b => Cardinality(RowsOfPair(a, b)) <= 1

C3_GetNeverCreates ==
    [][\A p \in Requests :
          LET r == req'[p] IN
          (r.method = "GET" /\ r # req[p] /\ r.pc # "idle") =>
             /\ conversations' = conversations
             /\ messages' = messages
             /\ r.pc # "create"
             /\ (req[p].pc = "idle" /\ RowsOfPair(r.current_user, r.recipient_id) = {})
                   => (r.pc = "done" /\ r.status = 200 /\ r.body = <<>>)
             /\ (r.pc = "done" /\ r.conversation # None
                   /\ \A i \in 1..Len(messages) :
                         messages[i].conversation_id # r.conversation)
                   => (r.status = 200 /\ r.body = <<>>)
      ]_vars

\* C3 witness: one GET answered 200 [] for a pair that has no conversation, and
\* one answered 200 [] from a conversation that exists and has no message.
C3_Witness ==
    \E p, q \in Requests :
       /\ req[p].method = "GET" /\ req[p].pc = "done" /\ req[p].conversation = None
       /\ req[p].status = 200 /\ req[p].body = <<>>
       /\ RowsOfPair(req[p].current_user, req[p].recipient_id) = {}
       /\ req[q].method = "GET" /\ req[q].pc = "done" /\ req[q].conversation # None
       /\ req[q].status = 200 /\ req[q].body = <<>>

C5_SelfChatRejected ==
    /\ \A p \in Requests :
          (req[p].pc = "done" /\ req[p].method = "POST"
             /\ req[p].current_user = req[p].recipient_id) =>
             /\ req[p].status \in 400..499
             /\ ~req[p].created
             /\ req[p].message = None
    /\ \A i \in 1..Len(conversations) :
          conversations[i].user1_id # conversations[i].user2_id

\* C6: the sender and the recipient of every stored message are exactly the
\* two participants of the conversation the message belongs to.
C6_MessageParticipants ==
    \A i \in 1..Len(messages) :
       \E j \in 1..Len(conversations) :
          /\ conversations[j].id = messages[i].conversation_id
          /\ {messages[i].sender_id, messages[i].recipient_id}
               = {conversations[j].user1_id, conversations[j].user2_id}

\* C6 witness: a message sent by the higher id of a two-user conversation.
C6_Witness ==
    \E i \in 1..Len(messages) :
       LET c == ConversationById(messages[i].conversation_id)
       IN  c.user1_id < c.user2_id /\ messages[i].sender_id = c.user2_id

\* C7: whenever the message has been persisted the POST reports success,
\* whether the broadcast step succeeds or fails.
C7_PersistedMeansSuccess ==
    \A p \in Requests :
       (req[p].pc = "done" /\ req[p].message # None) => req[p].status = 201

\* C8: a POST that ends in an error has changed neither table: it has created
\* no conversation and persisted no message.
C8_ErrorMeansNoChange ==
    \A p \in Requests :
       (req[p].pc = "done" /\ req[p].method = "POST" /\ req[p].status >= 400) =>
          ~req[p].created /\ req[p].message = None

\* C9: each appended message has triggered one 'new_chat' broadcast, received
\* by the clients connected at that moment.
C9_OneBroadcastPerMessage ==
    /\ Len(broadcasts) = Len(messages)
    /\ \A i \in 1..Len(broadcasts) :
          /\ broadcasts[i].payload.id = messages[i].conversation_id
          /\ broadcasts[i].payload.lastMessage = messages[i].content
          /\ broadcasts[i].receivers \subseteq Channels

ChatsOf(u) ==
    {conversations[i].id : i \in {j \in 1..Len(conversations) :
        u \in {conversations[j].user1_id, conversations[j].user2_id}}}

\* C15: get_all_chats for user U answers 200 with exactly the ids of the
\* conversations in which U is user1_id or user2_id, each once: all of U's, none
\* of the others', and the empty list when U has none.
C15_AllChatsOfUser ==
    [][listing' # listing =>
          /\ listing'.status = 200
          /\ {listing'.body[i] : i \in 1..Len(listing'.body)}
               = ChatsOf(listing'.current_user)
          /\ Len(listing'.body) = Cardinality(ChatsOf(listing'.current_user))
      ]_vars

\* C15 witness: the answer lists a conversation in which the user is user2_id
\* and leaves out a conversation of two others.
C15_Witness ==
    /\ listing.status = 200
    /\ \E i \in 1..Len(conversations) :
          /\ conversations[i].user2_id = listing.current_user
          /\ conversations[i].user1_id # listing.current_user
          /\ \E k \in 1..Len(listing.body) : listing.body[k] = conversations[i].id
    /\ \E j \in 1..Len(conversations) :
          /\ listing.current_user
               \notin {conversations[j].user1_id, conversations[j].user2_id}
          /\ \A k \in 1..Len(listing.body) : listing.body[k] # conversations[j].id

\* C15 witness of the empty answer: a user of no conversation, while others have.
C15_EmptyWitness ==
    /\ listing.status = 200 /\ listing.body = <<>>
    /\ ChatsOf(listing.current_user) = {}
    /\ conversations # <<>>

\* The comment reached from id by following k parent pointers (None once the
\* chain has ended).
RECURSIVE Up(_, _)
Up(id, k) ==
    IF id = None \/ k = 0 THEN id ELSE Up(comments[id].parent_comment_id, k - 1)

\* No comment is its own ancestor: every parent chain ends.
Acyclic == \A i \in 1..Len(comments) : Up(i, Len(comments)) = None

\* Number of comments on the parent chain of id, id included.
RECURSIVE Depth(_)
Depth(id) ==
    IF comments[id].parent_comment_id = None THEN 1
    ELSE 1 + Depth(comments[id].parent_comment_id)

\* The parentless comment at the end of the parent chain of id.
RECURSIVE TopAncestor(_)
TopAncestor(id) ==
    IF comments[id].parent_comment_id = None THEN id
    ELSE TopAncestor(comments[id].parent_comment_id)

\* The <<id, depth>> pairs of the nodes of a list of trees, in preorder.
RECURSIVE Entries(_, _)
Entries(nodes, d) ==
    IF nodes = <<>> THEN <<>>
    ELSE <<<<Head(nodes).id, d>>>> \o Entries(Head(nodes).replies, d + 1)
                                   \o Entries(Tail(nodes), d)

\* Every node of a list of trees has as replies exactly the comments whose
\* parent it is, each once.
RECURSIVE RepliesExact(_)
RepliesExact(nodes) ==
    \A i \in 1..Len(nodes) :
        /\ {nodes[i].replies[j].id : j \in 1..Len(nodes[i].replies)}
             = {c \in 1..Len(comments) : comments[c].parent_comment_id = nodes[i].id}
        /\ \A j, k \in 1..Len(nodes[i].replies) :
               nodes[i].replies[j].id = nodes[i].replies[k].id => j = k
        /\ RepliesExact(nodes[i].replies)

\* C11: on an acyclic comment table, the answer of get_threaded_comments is
\* 200 with a list whose roots are exactly the parentless comments of the
\* content item, whose every node has as replies exactly the comments whose
\* parent it is, and in which every comment below one of those roots appears
\* exactly once, at the depth of its parent chain, and no other comment appears.
C11_ThreadedTree ==
    (walk.pc = "done" /\ Acyclic) =>
        LET result == walk.result
            entries == Entries(result, 1)
        IN  /\ walk.status = 200
            /\ {result[i].id : i \in 1..Len(result)}
                 = {c \in 1..Len(comments) :
                      /\ comments[c].content_id = walk.content_id
                      /\ comments[c].parent_comment_id = None}
            /\ RepliesExact(result)
            /\ \A c \in 1..Len(comments) :
                 LET at == {k \in 1..Len(entries) : entries[k][1] = c} IN
                 IF comments[TopAncestor(c)].content_id = walk.content_id
                 THEN /\ Cardinality(at) = 1
                      /\ \A k \in at : entries[k][2] = Depth(c)
                 ELSE at = {}

\* C11 witness: C1 is a root, C2 replies to C1, C3 replies to C2, and the
\* answer is the single root C1 holding C2 holding C3.
C11_Witness ==
    /\ walk.pc = "done"
    /\ Len(comments) = 3
    /\ \A i \in 1..3 : comments[i].content_id = 1
    /\ comments[1].parent_comment_id = None
    /\ comments[2].parent_comment_id = 1
    /\ comments[3].parent_comment_id = 2
    /\ walk.content_id = 1
    /\ walk.result = <<[id |-> 1, replies |->
                          <<[id |-> 2, replies |->
                               <<[id |-> 3, replies |-> <<>>]>>]>>]>>

\* C16: a started tree building run always reaches its answer, for every
\* comment table (cyclic parent pointers included), and no comment is ever
\* inside a build_comment_tree call for itself.
C16_TreeBuildingTerminates ==
    /\ (walk.pc = "run") ~> (walk.pc = "done")
    /\ [](\A j, k \in 1..Len(walk.stack) :
              walk.stack[j].id = walk.stack[k].id => j = k)

\* C16 witness: the answer has been given on a table whose parent pointers
\* contain a cycle.
C16_Witness ==
    /\ walk.pc = "done"
    /\ ~Acyclic
    /\ walk.result # <<>>

\* C12: a POST /comment whose parent comment belongs to another content item
\* than the one named is answered with a client error and adds no Comment row,
\* and every comment with a parent has the content item of its parent.
C12_CrossContentParentRejected ==
    /\ [][(posted' # posted \/ comments' # comments) =>
            ((/\ posted'.parent_comment_id # None
              /\ comments[posted'.parent_comment_id].content_id # posted'.content_id)
             => (posted'.status \in 400..499 /\ comments' = comments))]_vars
    /\ [](\A i \in 1..Len(comments) :
            comments[i].parent_comment_id # None =>
                comments[comments[i].parent_comment_id].content_id
                  = comments[i].content_id)

\* C13: the Like table holds at most one row per (user, content) pair.
C13_OneLikePerUserContent ==
    \A i, j \in 1..Len(likes) :
        (likes[i].user_id = likes[j].user_id
         /\ likes[i].content_id = likes[j].content_id) => i = j

\* C14: deactivate_user and approve_content by a caller who is not an admin
\* are answered Unauthorized and change no flag, and a user's active flag
\* becomes false, and a content item's approved flag becomes true, only in a
\* request by an admin.
C14_ModerationOnlyByAdmin ==
    [][(mod' # mod \/ active' # active \/ approved' # approved) =>
         /\ (mod'.op \in {"deactivate_user", "approve_content"}
             /\ NotAdmin(mod'.caller))
               => (mod'.status \in {401, 403}
                   /\ active' = active /\ approved' = approved)
         /\ (\E u \in Users : active[u] /\ ~active'[u]) => ~NotAdmin(mod'.caller)
         /\ (\E c \in ContentIds : ~approved[c] /\ approved'[c])
               => ~NotAdmin(mod'.caller)]_vars

\* C17: no step removes a jti from the blocklist; a jti enters it only by a
\* successful logout with that token, and a successful logout puts it there;
\* a request is answered as revoked exactly when its token's jti is in the
\* blocklist, so a token is revoked from its logout on and never before.
C17_RevocationPermanent ==
    [][/\ jwt_blocklist \subseteq jwt_blocklist'
       /\ \A t \in jwt_blocklist' \ jwt_blocklist :
              auth' = [op |-> "logout", jti |-> t, status |-> 200]
       /\ (auth' # auth) =>
              /\ (auth'.status = 401) <=> (auth'.jti \in jwt_blocklist)
              /\ (auth'.op = "logout" /\ auth'.status = 200)
                    => auth'.jti \in jwt_blocklist']_vars

\* C17 witness: a token logged out earlier is presented after the logout of
\* another token and is answered as revoked.
C17_Witness ==
    /\ auth = [op |-> "jwt_required", jti |-> "t1", status |-> 401]
    /\ {"t1", "t2"} \subseteq jwt_blocklist

\* C17 witness: a token that was never logged out reaches its handler while
\* other tokens are revoked.
C17_NotRevokedWitness ==
    /\ auth = [op |-> "jwt_required", jti |-> "t3", status |-> 200]
    /\ jwt_blocklist = {"t1", "t2"}

====
